---- MODULE Spec2Model ----
(***************************************************************************)
(* A model of WATcher's IssueService (src/app/core/services/               *)
(* issue.service.ts): the local issue store, the merge of a fetched batch  *)
(* with eviction of outdated ids, the poll driver built on                 *)
(* timer + exhaustMap + catchError + finalize, and the single-issue reads. *)
(***************************************************************************)
EXTENDS Integers, Sequences, FiniteSets, TLC

\* ------------------------------------------------------------------ bounds
\* Issue numbers are 1..MaxId, the remote content of an issue is a version
\* 1..MaxVer, one fetch returns at most MaxBatchLen records, and at most
\* MaxStale abandoned fetches and at most MaxPending fetches of a single issue
\* are awaited at once.
MaxId == 2
MaxVer == 2
MaxBatchLen == 2
MaxStale == 1
MaxPending == 1
MaxTextLen == 2
MaxLabels == 2
MaxDisputes == 2

Ids == 1..MaxId
Vers == 1..MaxVer

\* A GithubIssue as far as the service reads it: its number and its content.
GithubIssues == [number : Ids, ver : Vers]

\* Every list of records a fetch may answer with: the remote lists an issue
\* at most once, here by ascending number.
Batches ==
  {b \in UNION {[1..n -> GithubIssues] : n \in 0..MaxBatchLen} :
     \A i, j \in DOMAIN b : i < j => b[i].number < b[j].number}

\* ------------------------------------------------------ phases and filters
\* Phase.issuesViewer is the one phase the code names; "undefined" is the
\* phase service before a session has set a phase.
Phases == {"issuesViewer", "undefined"}

\* The roles IssuesFilter knows, and a role it has no entry for.
Roles == {"Student", "Tutor", "Admin", "undefined"}

\* export const IssuesFilter = { issuesViewer: { Student, Tutor, Admin } }
IssuesFilter ==
  [p \in {"issuesViewer"} |-> [r \in {"Student", "Tutor", "Admin"} |-> "NO_FILTER"]]

\* ------------------------------------------------------------- the Issue
\* What createIssueModel returns when no phase matches (`default: return;`).
UndefinedIssue == [id |-> 0, ver |-> 0]

\* Issue.createPhaseBugReportingIssue: id = +githubIssue.number, and the
\* content of the record.
createPhaseBugReportingIssue(githubIssue) ==
  [id |-> githubIssue.number, ver |-> githubIssue.ver]

\* IssueService.createIssueModel: the switch on the current phase.
createIssueModel(phase, githubIssue) ==
  IF phase = "issuesViewer"
    THEN createPhaseBugReportingIssue(githubIssue)
    ELSE UndefinedIssue

\* ------------------------------------------------------------- the store
\* this.issues: undefined, or an object from issue id to Issue.
UndefinedStore == [defined |-> FALSE, map |-> <<>>]

Keys(store) == DOMAIN store.map

\* The function f without key k.
Without(f, k) == [x \in (DOMAIN f) \ {k} |-> f[x]]

\* The function f with key k set to v.
With(f, k, v) == [x \in (DOMAIN f) \cup {k} |-> IF x = k THEN v ELSE f[x]]

Min(S) == CHOOSE x \in S : \A y \in S : x <= y

\* Object.values of an object with integer keys: the values by ascending key.
RECURSIVE ValuesOf(_, _)
ValuesOf(f, keys) ==
  IF keys = {} THEN <<>>
  ELSE LET k == Min(keys) IN <<f[k]>> \o ValuesOf(f, keys \ {k})

ObjectValues(store) == ValuesOf(store.map, Keys(store))

\* The store and the value of issues$ together: what updateLocalStore and
\* deleteFromLocalStore read and write.
Local(store, published) == [issues |-> store, snapshot |-> published]

\* updateLocalStore without the spread of this.issues: the store becomes the
\* one entry.
updateLocalStore_Replace(local, issueToUpdate) ==
  LET store == [defined |-> TRUE,
                map |-> With(<<>>, issueToUpdate.id, issueToUpdate)]
  IN Local(store, ObjectValues(store))

\* updateLocalStore: this.issues = { ...this.issues, [issue.id]: issue }
\* (spreading undefined gives the empty object), then
\* this.issues$.next(Object.values(this.issues)).
updateLocalStore(local, issueToUpdate) ==
  LET store == [defined |-> TRUE,
                map |-> With(local.issues.map, issueToUpdate.id, issueToUpdate)]
  IN Local(store, ObjectValues(store))

\* deleteFromLocalStore without its this.issues$.next(...).
deleteFromLocalStore_NoPublish(local, issueToDelete) ==
  LET store == [defined |-> TRUE, map |-> Without(local.issues.map, issueToDelete.id)]
  IN Local(store, local.snapshot)

\* deleteFromLocalStore: this.issues without the key issueToDelete.id, then
\* this.issues$.next(Object.values(this.issues)).
deleteFromLocalStore(local, issueToDelete) ==
  LET store == [defined |-> TRUE, map |-> Without(local.issues.map, issueToDelete.id)]
  IN Local(store, ObjectValues(store))

\* getOutdatedIssueIds that never finds an id outdated.
getOutdatedIssueIds_None(store, fetchedIssueIds) == {}

\* getOutdatedIssueIds without the test for an empty fetch result.
getOutdatedIssueIds_NoEmptyTest(store, fetchedIssueIds) ==
  IF ~store.defined
    THEN {}
    ELSE {issueId \in Keys(store) : issueId \notin fetchedIssueIds}

\* getOutdatedIssueIds that takes every key of the store for outdated.
getOutdatedIssueIds_AllKeys(store, fetchedIssueIds) ==
  IF ~store.defined \/ fetchedIssueIds = {}
    THEN {}
    ELSE Keys(store)

\* getOutdatedIssueIds with the filter inverted (has instead of !has).
getOutdatedIssueIds_Inverted(store, fetchedIssueIds) ==
  IF ~store.defined \/ fetchedIssueIds = {}
    THEN {}
    ELSE {issueId \in Keys(store) : issueId \in fetchedIssueIds}

\* getOutdatedIssueIds: nothing on a first fetch or an empty fetch result,
\* else the keys of the store that were not fetched.
getOutdatedIssueIds(store, fetchedIssueIds) ==
  IF ~store.defined \/ fetchedIssueIds = {}
    THEN {}
    ELSE {issueId \in Keys(store) : issueId \notin fetchedIssueIds}

\* deleteIssuesFromLocalStore: for each id, getIssue(id) answers at once with
\* this.issues[id] (the store is defined) and that issue is deleted.
RECURSIVE deleteIssuesFromLocalStore(_, _)
deleteIssuesFromLocalStore(local, ids) ==
  IF ids = {} THEN local
  ELSE LET id == Min(ids) IN
       deleteIssuesFromLocalStore(deleteFromLocalStore(local, local.issues.map[id]),
                                  ids \ {id})

\* The loop of initializeData's map callback over the fetched records, from
\* record i on: fetchedIssueIds.push(createIssueModel(issue).id) raises on an
\* undefined model and leaves the store as the records before it made it;
\* createAndSaveIssueModel(issue) saves the model.
RECURSIVE SaveFetched(_, _, _, _, _)
SaveFetched(phase, local, batch, i, fetched) ==
  IF i > Len(batch)
    THEN [local |-> local, fetched |-> fetched, raised |-> FALSE]
    ELSE LET issue == createIssueModel(phase, batch[i]) IN
         IF issue = UndefinedIssue
           THEN [local |-> local, fetched |-> fetched, raised |-> TRUE]
           ELSE SaveFetched(phase, updateLocalStore(local, issue), batch, i + 1,
                            fetched \cup {issue.id})

\* The end of the map callback, after the loop: the outdated ids are evicted
\* and Object.values(this.issues) is returned, which raises on an undefined
\* store.
EvictOutdated(saved) ==
  IF saved.raised
    THEN [local |-> saved.local, evicted |-> {}, raised |-> TRUE]
    ELSE \* const outdatedIssueIds = this.getOutdatedIssueIds(fetchedIssueIds)
         LET outdated == getOutdatedIssueIds(saved.local.issues, saved.fetched) IN
         [local |-> deleteIssuesFromLocalStore(saved.local, outdated),
          evicted |-> outdated,
          raised |-> ~saved.local.issues.defined]

\* The whole map callback of initializeData on the fetched batch.
MergeBatch(phase, local, batch) ==
  EvictOutdated(SaveFetched(phase, local, batch, 1, {}))

\* ------------------------------------------------------------- the state
VARIABLES
  currentPhase,            \* phaseService.currentPhase, set once per process
  issues,                  \* this.issues
  issuesSubject,           \* the current value of this.issues$
  sessionId,               \* this.sessionId
  issuesPollSubscription,  \* "undefined", "active", or "closed" (ended by an error)
  isLoading,               \* the current value of this.isLoading
  nextTick,                \* the timer of the poll: "none", "0" (tick 0 due), "later"
  hasSubscription,         \* exhaustMap's flag: an inner cycle is subscribed
  liveFetches,             \* full fetches awaited by a cycle that is still subscribed
  staleFetches,            \* full fetches awaited whose cycle was unsubscribed
  pendingGets,             \* ids with a getLatestIssue fetch awaited
  pendingPolls,            \* ids with a fetch of a pollIssue cycle awaited
  pendingCloses,           \* ids with a closeIssue call of deleteIssue awaited
  remoteIssue,             \* the GithubIssue record an Issue is built from
  localIssue,              \* the Issue a caller holds
  returned,                \* what the last operation on that Issue returned
  flow,                    \* the operation on that Issue that is under way
  pendingCall,             \* the remote call that operation awaits
  prevBatch,               \* the batch of the last store write, when it was a merge
  lastOp                   \* the last operation: its name, inputs and outcome

vars == <<currentPhase, issues, issuesSubject, sessionId, issuesPollSubscription,
          isLoading, nextTick, hasSubscription, liveFetches, staleFetches,
          pendingGets, pendingPolls, pendingCloses, remoteIssue, localIssue, returned,
          flow, pendingCall, prevBatch, lastOp>>

\* The state of the operations on one Issue.
issueVars == <<remoteIssue, localIssue, returned, flow, pendingCall>>

\* The state of the service, which the operations on one Issue leave alone.
serviceVars == <<issues, issuesSubject, sessionId, issuesPollSubscription, isLoading,
                 nextTick, hasSubscription, liveFetches, staleFetches, pendingGets,
                 pendingPolls, pendingCloses, prevBatch>>

\* The calls for a single issue that are awaited.
PendingCount ==
  Cardinality(pendingGets) + Cardinality(pendingPolls) + Cardinality(pendingCloses)

NoBatch == [some |-> FALSE, batch |-> <<>>]
SomeBatch(batch) == [some |-> TRUE, batch |-> batch]

\* The record of an operation, with nothing observed yet.
Op(name) ==
  [op |-> name, batch |-> <<>>, evicted |-> {}, raised |-> FALSE, again |-> FALSE,
   wasDefined |-> FALSE, wasPolling |-> FALSE, hadCycle |-> FALSE,
   id |-> 0, fetch |-> FALSE, ret |-> UndefinedIssue, resetSessionId |-> FALSE,
   input |-> [kind |-> "undefined"]]

\* A value that is undefined, and the outcome of a call that raised.
Undefined == [kind |-> "undefined"]
Raised == [kind |-> "raised"]

\* The service after its constructor: issues$ holds the empty list, isLoading
\* holds false, and the other fields are undefined.
InitService ==
  /\ issues = UndefinedStore
  /\ issuesSubject = <<>>
  /\ sessionId = "undefined"
  /\ issuesPollSubscription = "undefined"
  /\ isLoading = FALSE
  /\ nextTick = "none"
  /\ hasSubscription = FALSE
  /\ liveFetches = 0
  /\ staleFetches = 0
  /\ pendingGets = {}
  /\ pendingPolls = {}
  /\ pendingCloses = {}
  /\ prevBatch = NoBatch

\* constructor: issues$ holds the empty list, isLoading holds false, and the
\* other fields are undefined.
Init ==
  /\ currentPhase \in Phases
  /\ remoteIssue = Undefined
  /\ localIssue = Undefined
  /\ returned = Undefined
  /\ flow = "none"
  /\ pendingCall = "none"
  /\ issues = UndefinedStore
  /\ issuesSubject = <<>>
  /\ sessionId = "undefined"
  /\ issuesPollSubscription = "undefined"
  /\ isLoading = FALSE
  /\ nextTick = "none"
  /\ hasSubscription = FALSE
  /\ liveFetches = 0
  /\ staleFetches = 0
  /\ pendingGets = {}
  /\ pendingPolls = {}
  /\ pendingCloses = {}
  /\ prevBatch = NoBatch
  /\ lastOp = Op("constructor")

\* ------------------------------------------------------------ poll driver
\* startPollIssues without the test for an existing subscription.
startPollIssues_NoGuard ==
  /\ isLoading' = (IF Len(issuesSubject) = 0 THEN TRUE ELSE isLoading)
  /\ issuesPollSubscription' = "active"
  /\ nextTick' = "0"
  /\ lastOp' = [Op("startPollIssues") EXCEPT
                  !.wasPolling = (issuesPollSubscription # "undefined")]
  /\ UNCHANGED <<currentPhase, issueVars, pendingPolls, pendingCloses, issues, issuesSubject, sessionId, hasSubscription,
                 liveFetches, staleFetches, pendingGets, prevBatch>>

\* startPollIssues: only without a subscription; isLoading.next(true) on an
\* empty snapshot; timer(0, POLL_INTERVAL) is subscribed, tick 0 is due.
startPollIssues ==
  /\ IF issuesPollSubscription = "undefined"
       THEN /\ isLoading' = (IF Len(issuesSubject) = 0 THEN TRUE ELSE isLoading)
            /\ issuesPollSubscription' = "active"
            /\ nextTick' = "0"
       ELSE UNCHANGED <<isLoading, issuesPollSubscription, nextTick>>
  /\ lastOp' = [Op("startPollIssues") EXCEPT
                  !.wasPolling = (issuesPollSubscription # "undefined")]
  /\ UNCHANGED <<currentPhase, issueVars, pendingPolls, pendingCloses, issues, issuesSubject, sessionId, hasSubscription,
                 liveFetches, staleFetches, pendingGets, prevBatch>>

\* An unsubscribe that tears the cycle down without running its finalize.
Unsubscribed_NoFinalize(loading, hasSub, live, stale) ==
  [isLoading |-> loading,
   hasSubscription |-> FALSE,
   liveFetches |-> 0,
   staleFetches |-> stale + live,
   nextTick |-> "none"]

\* An unsubscribe that cancels the timer and leaves the cycle subscribed.
Unsubscribed_KeepsCycle(loading, hasSub, live, stale) ==
  [isLoading |-> loading,
   hasSubscription |-> hasSub,
   liveFetches |-> live,
   staleFetches |-> stale,
   nextTick |-> "none"]

\* Subscription.unsubscribe() of the poll: the timer is cancelled, a subscribed
\* cycle is torn down (its finalize runs, its fetch is abandoned).
Unsubscribed(loading, hasSub, live, stale) ==
  [isLoading |-> (IF hasSub THEN FALSE ELSE loading),
   hasSubscription |-> FALSE,
   liveFetches |-> 0,
   staleFetches |-> stale + live,
   nextTick |-> "none"]

\* stopPollIssues: only with a subscription (an ended one is an object too).
stopPollIssues ==
  /\ staleFetches + liveFetches <= MaxStale
  /\ IF issuesPollSubscription # "undefined"
       THEN LET u == Unsubscribed(isLoading, hasSubscription, liveFetches, staleFetches)
            IN /\ isLoading' = u.isLoading
               /\ hasSubscription' = u.hasSubscription
               /\ liveFetches' = u.liveFetches
               /\ staleFetches' = u.staleFetches
               /\ nextTick' = u.nextTick
               /\ issuesPollSubscription' = "undefined"
       ELSE UNCHANGED <<isLoading, hasSubscription, liveFetches, staleFetches,
                        nextTick, issuesPollSubscription>>
  /\ lastOp' = [Op("stopPollIssues") EXCEPT
                  !.wasPolling = (issuesPollSubscription # "undefined"),
                  !.hadCycle = hasSubscription]
  /\ UNCHANGED <<currentPhase, issueVars, pendingPolls, pendingCloses, issues, issuesSubject, sessionId, pendingGets, prevBatch>>

\* mergeMap in place of exhaustMap: no source value is dropped.
ExhaustBusy_Never(hasSub) == FALSE

\* exhaustMap: a source value is dropped while an inner observable is subscribed.
ExhaustBusy(hasSub) == hasSub

\* The head of initializeData: IssuesFilter[phase][role] raises for a phase
\* without an entry ("throw"); a role without an entry, or NO_ACCESS, answers
\* of([]) ("empty"); every other filter issues its fetch ("fetch").
FilterLookup(phase, role) ==
  IF phase \notin DOMAIN IssuesFilter THEN "throw"
  ELSE IF role \notin DOMAIN IssuesFilter[phase] THEN "empty"
  ELSE IF IssuesFilter[phase][role] = "NO_ACCESS" THEN "empty"
  ELSE "fetch"

\* A value of timer(0, POLL_INTERVAL) reaches exhaustMap.
Tick(role) ==
  /\ issuesPollSubscription = "active"
  /\ nextTick \in {"0", "later"}
  /\ IF ExhaustBusy(hasSubscription)
       THEN \* dropped
            /\ nextTick' = "later"
            /\ lastOp' = Op("tickDropped")
            /\ UNCHANGED <<issuesPollSubscription, isLoading, hasSubscription, liveFetches>>
       ELSE CASE FilterLookup(currentPhase, role) = "throw" ->
                   \* reloadAllIssues() raises inside the project function: the
                   \* error ends the poll subscription; no finalize was attached
                   /\ issuesPollSubscription' = "closed"
                   /\ nextTick' = "none"
                   /\ lastOp' = [Op("tickThrew") EXCEPT !.raised = TRUE]
                   /\ UNCHANGED <<isLoading, hasSubscription, liveFetches>>
              [] FilterLookup(currentPhase, role) = "empty" ->
                   \* of([]) emits and completes at once; finalize runs
                   /\ isLoading' = FALSE
                   /\ nextTick' = "later"
                   /\ lastOp' = Op("tickEmpty")
                   /\ UNCHANGED <<issuesPollSubscription, hasSubscription, liveFetches>>
              [] OTHER ->
                   /\ hasSubscription' = TRUE
                   /\ liveFetches' = liveFetches + 1
                   /\ nextTick' = "later"
                   /\ lastOp' = [Op("tickFetch") EXCEPT !.fetch = TRUE]
                   /\ UNCHANGED <<issuesPollSubscription, isLoading>>
  /\ UNCHANGED <<currentPhase, issueVars, pendingPolls, pendingCloses, issues, issuesSubject, sessionId, staleFetches,
                 pendingGets, prevBatch>>

\* The fetch of a subscribed cycle answers with batch: the map callback of
\* initializeData merges it; catchError swallows what it raises; the inner
\* observable ends and finalize clears isLoading.
PollResponse(batch) ==
  /\ liveFetches > 0
  /\ \E r \in {MergeBatch(currentPhase, Local(issues, issuesSubject), batch)} :
        /\ issues' = r.local.issues
        /\ issuesSubject' = r.local.snapshot
        /\ prevBatch' = (IF r.raised THEN NoBatch ELSE SomeBatch(batch))
        /\ lastOp' = [Op("merge") EXCEPT !.batch = batch, !.evicted = r.evicted,
                                         !.raised = r.raised,
                                         !.wasDefined = issues.defined,
                                         !.again = (prevBatch = SomeBatch(batch))]
  /\ liveFetches' = liveFetches - 1
  /\ hasSubscription' = FALSE
  /\ isLoading' = FALSE
  /\ UNCHANGED <<currentPhase, issueVars, pendingPolls, pendingCloses, sessionId, issuesPollSubscription, nextTick,
                 staleFetches, pendingGets>>

\* A failing fetch without catchError: the error ends the poll subscription
\* (finalize still runs).
PollError_NoCatch ==
  /\ liveFetches > 0
  /\ liveFetches' = liveFetches - 1
  /\ hasSubscription' = FALSE
  /\ isLoading' = FALSE
  /\ issuesPollSubscription' = "closed"
  /\ nextTick' = "none"
  /\ lastOp' = [Op("pollError") EXCEPT !.raised = TRUE]
  /\ UNCHANGED <<currentPhase, issueVars, pendingPolls, pendingCloses, issues, issuesSubject, sessionId, staleFetches,
                 pendingGets, prevBatch>>

\* The fetch of a subscribed cycle fails: catchError answers EMPTY, the inner
\* observable ends and finalize clears isLoading.
PollError ==
  /\ liveFetches > 0
  /\ liveFetches' = liveFetches - 1
  /\ hasSubscription' = FALSE
  /\ isLoading' = FALSE
  /\ lastOp' = [Op("pollError") EXCEPT !.raised = TRUE]
  /\ UNCHANGED <<currentPhase, issueVars, pendingPolls, pendingCloses, issues, issuesSubject, sessionId, issuesPollSubscription,
                 nextTick, staleFetches, pendingGets, prevBatch>>

\* The fetch of an unsubscribed cycle answers (with a batch or an error):
\* nobody is subscribed, so neither the map callback nor catchError runs.
StaleResponse ==
  /\ staleFetches > 0
  /\ staleFetches' = staleFetches - 1
  /\ lastOp' = Op("staleResponse")
  /\ UNCHANGED <<currentPhase, issueVars, pendingPolls, pendingCloses, issues, issuesSubject, sessionId, issuesPollSubscription,
                 isLoading, nextTick, hasSubscription, liveFetches, pendingGets,
                 prevBatch>>

\* ------------------------------------------------------- session and reset
\* setSessionId
setSessionId(id) ==
  /\ sessionId' = id
  /\ lastOp' = Op("setSessionId")
  /\ UNCHANGED <<currentPhase, issueVars, pendingPolls, pendingCloses, issues, issuesSubject, issuesPollSubscription, isLoading,
                 nextTick, hasSubscription, liveFetches, staleFetches, pendingGets,
                 prevBatch>>

\* reset without its call of stopPollIssues().
reset_NoStop(resetSessionId) ==
  /\ staleFetches + liveFetches <= MaxStale
  /\ sessionId' = (IF resetSessionId THEN "undefined" ELSE sessionId)
  /\ issues' = UndefinedStore
  /\ issuesSubject' = <<>>
  /\ isLoading' = FALSE
  /\ prevBatch' = NoBatch
  /\ lastOp' = [Op("reset") EXCEPT
                  !.wasPolling = (issuesPollSubscription # "undefined"),
                  !.hadCycle = hasSubscription,
                  !.resetSessionId = resetSessionId]
  /\ UNCHANGED <<currentPhase, issueVars, pendingPolls, pendingCloses, pendingGets, hasSubscription, liveFetches, staleFetches,
                 nextTick, issuesPollSubscription>>

\* reset: the session id is cleared on request, the store becomes undefined,
\* issues$ gets the empty list, stopPollIssues() runs, and isLoading is
\* replaced by a new BehaviorSubject holding false.
reset(resetSessionId) ==
  /\ staleFetches + liveFetches <= MaxStale
  /\ sessionId' = (IF resetSessionId THEN "undefined" ELSE sessionId)
  /\ issues' = UndefinedStore
  /\ issuesSubject' = <<>>
  /\ IF issuesPollSubscription # "undefined"
       THEN LET u == Unsubscribed(isLoading, hasSubscription, liveFetches, staleFetches)
            IN /\ hasSubscription' = u.hasSubscription
               /\ liveFetches' = u.liveFetches
               /\ staleFetches' = u.staleFetches
               /\ nextTick' = u.nextTick
               /\ issuesPollSubscription' = "undefined"
       ELSE UNCHANGED <<hasSubscription, liveFetches, staleFetches, nextTick,
                        issuesPollSubscription>>
  /\ isLoading' = FALSE
  /\ prevBatch' = NoBatch
  /\ lastOp' = [Op("reset") EXCEPT
                  !.wasPolling = (issuesPollSubscription # "undefined"),
                  !.hadCycle = hasSubscription,
                  !.resetSessionId = resetSessionId]
  /\ UNCHANGED <<currentPhase, issueVars, pendingPolls, pendingCloses, pendingGets>>

\* ------------------------------------------------------ single-issue reads
\* this.issues[id]: the entry, or undefined for a key the store lacks.
Entry(store, id) == IF id \in Keys(store) THEN store.map[id] ELSE UndefinedIssue

\* getIssue: whether the call goes to the remote (getLatestIssue).
GetIssueFetches(store) == ~store.defined

\* getIssue(id), subscribed: on an undefined store getLatestIssue(id) issues
\* fetchIssueGraphql(id); else of(this.issues[id]) answers at once.
getIssue(id) ==
  /\ IF GetIssueFetches(issues)
       THEN /\ id \notin pendingGets
            /\ PendingCount < MaxPending
            /\ pendingGets' = pendingGets \cup {id}
            /\ lastOp' = [Op("getIssue") EXCEPT !.id = id, !.fetch = TRUE]
       ELSE /\ pendingGets' = pendingGets
            /\ lastOp' = [Op("getIssue") EXCEPT !.id = id, !.ret = Entry(issues, id)]
  /\ UNCHANGED <<currentPhase, issueVars, pendingPolls, pendingCloses, issues, issuesSubject, sessionId, issuesPollSubscription,
                 isLoading, nextTick, hasSubscription, liveFetches, staleFetches,
                 prevBatch>>

\* getLatestIssue(id), subscribed: fetchIssueGraphql(id) is issued whatever the
\* store holds.
getLatestIssue(id) ==
  /\ id \notin pendingGets
  /\ PendingCount < MaxPending
  /\ pendingGets' = pendingGets \cup {id}
  /\ lastOp' = [Op("getLatestIssue") EXCEPT !.id = id, !.fetch = TRUE]
  /\ UNCHANGED <<currentPhase, issueVars, pendingPolls, pendingCloses, issues, issuesSubject, sessionId, issuesPollSubscription,
                 isLoading, nextTick, hasSubscription, liveFetches, staleFetches,
                 prevBatch>>

\* createAndSaveIssueModel: updateLocalStore(createIssueModel(githubIssue));
\* reading .id of an undefined model raises before the store is written.
createAndSaveIssueModel(phase, local, githubIssue) ==
  LET issue == createIssueModel(phase, githubIssue) IN
  IF issue = UndefinedIssue
    THEN [local |-> local, raised |-> TRUE]
    ELSE [local |-> updateLocalStore(local, issue), raised |-> FALSE]

\* catchError of getLatestIssue: of(this.issues[id]), which raises on an
\* undefined store.
LatestFallback(store, id) ==
  [ret |-> Entry(store, id), raised |-> ~store.defined]

\* The fetch of getLatestIssue(id) answers with the record of id: the map
\* callback saves its model and returns this.issues[id]; what it raises goes
\* to catchError.
GetLatestResponse(id, ver) ==
  /\ id \in pendingGets
  /\ pendingGets' = pendingGets \ {id}
  /\ LET saved == createAndSaveIssueModel(currentPhase, Local(issues, issuesSubject),
                                          [number |-> id, ver |-> ver])
         fb == LatestFallback(saved.local.issues, id)
     IN /\ issues' = saved.local.issues
        /\ issuesSubject' = saved.local.snapshot
        /\ prevBatch' = (IF saved.raised THEN prevBatch ELSE NoBatch)
        /\ lastOp' = [Op("getLatestResponse") EXCEPT
                        !.id = id,
                        !.batch = <<[number |-> id, ver |-> ver]>>,
                        !.wasDefined = issues.defined,
                        !.ret = (IF saved.raised THEN fb.ret ELSE Entry(saved.local.issues, id)),
                        !.raised = (saved.raised /\ fb.raised)]
  /\ UNCHANGED <<currentPhase, issueVars, pendingPolls, pendingCloses, sessionId, issuesPollSubscription, isLoading, nextTick,
                 hasSubscription, liveFetches, staleFetches>>

\* The fetch of getLatestIssue(id) fails: catchError answers of(this.issues[id]).
GetLatestError(id) ==
  /\ id \in pendingGets
  /\ pendingGets' = pendingGets \ {id}
  /\ LET fb == LatestFallback(issues, id)
     IN lastOp' = [Op("getLatestError") EXCEPT !.id = id, !.ret = fb.ret,
                                               !.raised = fb.raised]
  /\ UNCHANGED <<currentPhase, issueVars, pendingPolls, pendingCloses, issues, issuesSubject, sessionId, issuesPollSubscription,
                 isLoading, nextTick, hasSubscription, liveFetches, staleFetches,
                 prevBatch>>

\* ------------------------------------------------------- single-issue poll
\* pollIssue(issueId), subscribed: a value of its timer reaches exhaustMap,
\* which issues fetchIssueGraphql(issueId) unless the fetch of the previous
\* value is still awaited.
pollIssue(issueId) ==
  /\ issueId \notin pendingPolls
  /\ PendingCount < MaxPending
  /\ pendingPolls' = pendingPolls \cup {issueId}
  /\ lastOp' = [Op("pollIssue") EXCEPT !.id = issueId, !.fetch = TRUE]
  /\ UNCHANGED <<currentPhase, issueVars, pendingCloses, issues, issuesSubject, sessionId, issuesPollSubscription,
                 isLoading, nextTick, hasSubscription, liveFetches, staleFetches,
                 pendingGets, prevBatch>>

\* catchError of pollIssue: getIssue(issueId), which goes to the remote on an
\* undefined store and answers this.issues[issueId] otherwise.
PollIssueFallback(store, gets, issueId) ==
  IF GetIssueFetches(store)
    THEN [gets |-> gets \cup {issueId}, fetch |-> TRUE, ret |-> UndefinedIssue]
    ELSE [gets |-> gets, fetch |-> FALSE, ret |-> Entry(store, issueId)]

\* The fetch of pollIssue(issueId) answers with the record of the issue: the
\* map callback builds the model, saves it with updateLocalStore and returns
\* it; what the callback raises goes to catchError.
PollIssueResponse(issueId, ver) ==
  /\ issueId \in pendingPolls
  /\ pendingPolls' = pendingPolls \ {issueId}
  /\ LET saved == createAndSaveIssueModel(currentPhase, Local(issues, issuesSubject),
                                          [number |-> issueId, ver |-> ver])
         fb == PollIssueFallback(issues, pendingGets, issueId)
     IN /\ issues' = saved.local.issues
        /\ issuesSubject' = saved.local.snapshot
        /\ prevBatch' = (IF saved.raised THEN prevBatch ELSE NoBatch)
        /\ pendingGets' = (IF saved.raised THEN fb.gets ELSE pendingGets)
        /\ lastOp' = [Op("pollIssueResponse") EXCEPT
                        !.id = issueId,
                        !.batch = <<[number |-> issueId, ver |-> ver]>>,
                        !.wasDefined = issues.defined,
                        !.raised = saved.raised,
                        !.fetch = (saved.raised /\ fb.fetch),
                        !.ret = (IF saved.raised THEN fb.ret
                                 ELSE createIssueModel(currentPhase,
                                                       [number |-> issueId, ver |-> ver]))]
  /\ UNCHANGED <<currentPhase, issueVars, pendingCloses, sessionId, issuesPollSubscription, isLoading, nextTick,
                 hasSubscription, liveFetches, staleFetches>>

\* The fetch of pollIssue(issueId) fails: catchError answers getIssue(issueId).
PollIssueError(issueId) ==
  /\ issueId \in pendingPolls
  /\ pendingPolls' = pendingPolls \ {issueId}
  /\ LET fb == PollIssueFallback(issues, pendingGets, issueId)
     IN /\ pendingGets' = fb.gets
        /\ lastOp' = [Op("pollIssueError") EXCEPT !.id = issueId, !.fetch = fb.fetch,
                                                  !.ret = fb.ret]
  /\ UNCHANGED <<currentPhase, issueVars, pendingCloses, issues, issuesSubject, sessionId, issuesPollSubscription,
                 isLoading, nextTick, hasSubscription, liveFetches, staleFetches,
                 prevBatch>>

\* ------------------------------------------------------------ deleteIssue
\* deleteIssue(id), subscribed: githubService.closeIssue(id) is called.
deleteIssue(id) ==
  /\ id \notin pendingCloses
  /\ PendingCount < MaxPending
  /\ pendingCloses' = pendingCloses \cup {id}
  /\ lastOp' = [Op("deleteIssue") EXCEPT !.id = id]
  /\ UNCHANGED <<currentPhase, issueVars, pendingPolls, issues, issuesSubject, sessionId,
                 issuesPollSubscription, isLoading, nextTick, hasSubscription,
                 liveFetches, staleFetches, pendingGets, prevBatch>>

\* The map callback of deleteIssue on the closed record: the model is built
\* and deleteFromLocalStore(deletedIssue) removes its key; reading .id of an
\* undefined model raises, and so does destructuring an undefined store.
DeleteClosed(phase, local, githubIssue) ==
  LET deletedIssue == createIssueModel(phase, githubIssue) IN
  IF deletedIssue = UndefinedIssue \/ ~local.issues.defined
    THEN [local |-> local, raised |-> TRUE, ret |-> UndefinedIssue]
    ELSE [local |-> deleteFromLocalStore(local, deletedIssue), raised |-> FALSE,
          ret |-> deletedIssue]

\* closeIssue(id) answers with the closed record; what the map callback raises
\* is the error of the returned observable.
DeleteIssueResponse(id, ver) ==
  /\ id \in pendingCloses
  /\ pendingCloses' = pendingCloses \ {id}
  /\ LET r == DeleteClosed(currentPhase, Local(issues, issuesSubject),
                           [number |-> id, ver |-> ver])
     IN /\ issues' = r.local.issues
        /\ issuesSubject' = r.local.snapshot
        /\ prevBatch' = (IF r.raised THEN prevBatch ELSE NoBatch)
        /\ lastOp' = [Op("deleteIssueResponse") EXCEPT
                        !.id = id,
                        !.batch = <<[number |-> id, ver |-> ver]>>,
                        !.wasDefined = issues.defined,
                        !.raised = r.raised,
                        !.ret = r.ret]
  /\ UNCHANGED <<currentPhase, issueVars, pendingPolls, sessionId, issuesPollSubscription, isLoading,
                 nextTick, hasSubscription, liveFetches, staleFetches, pendingGets>>

\* closeIssue(id) fails: the error goes to the caller.
DeleteIssueError(id) ==
  /\ id \in pendingCloses
  /\ pendingCloses' = pendingCloses \ {id}
  /\ lastOp' = [Op("deleteIssueError") EXCEPT !.id = id, !.raised = TRUE]
  /\ UNCHANGED <<currentPhase, issueVars, pendingPolls, issues, issuesSubject, sessionId,
                 issuesPollSubscription, isLoading, nextTick, hasSubscription,
                 liveFetches, staleFetches, pendingGets, prevBatch>>

\* --------------------------------------------------------- text of a body
\* A text is a sequence of tokens: a word, a blank, a line break. A hidden
\* entry of a body is a token that holds a key with its value.
Words == {"desc"}
Blank == " "
LineBreaks == {"\n"}
Tokens == Words \cup {Blank} \cup LineBreaks
HiddenEntries == {"<!--session: abc-->"}

\* A text that is null or undefined.
NoText == <<"(undefined)">>

Texts == UNION {[1..n -> Tokens] : n \in 0..MaxTextLen}

RECURSIVE SelectTokens(_, _)
SelectTokens(text, keep) ==
  IF text = <<>> THEN <<>>
  ELSE (IF Head(text) \in keep THEN <<Head(text)>> ELSE <<>>)
         \o SelectTokens(Tail(text), keep)

\* HiddenData.embedDataIntoString: the entries are appended to the text.
embedDataIntoString(text, data) == text \o data

\* new HiddenData(body): the entries of the body, and the body with the
\* entries removed (originalStringWithoutHiddenData); an absent body has
\* neither.
HiddenData(body) ==
  IF body = NoText
    THEN [data |-> <<>>, originalStringWithoutHiddenData |-> NoText]
    ELSE [data |-> SelectTokens(body, HiddenEntries),
          originalStringWithoutHiddenData |-> SelectTokens(body, Tokens)]

\* text.split(/[\n\r]/gi): the pieces between the line breaks.
RECURSIVE SplitLines(_, _)
SplitLines(text, piece) ==
  IF text = <<>> THEN <<piece>>
  ELSE IF Head(text) \in LineBreaks
    THEN <<piece>> \o SplitLines(Tail(text), <<>>)
    ELSE SplitLines(Tail(text), Append(piece, Head(text)))

\* split.trim(): without the blanks at both ends.
RECURSIVE trim(_)
trim(piece) ==
  IF piece = <<>> THEN <<>>
  ELSE IF Head(piece) = Blank THEN trim(Tail(piece))
  ELSE IF piece[Len(piece)] = Blank THEN trim(SubSeq(piece, 1, Len(piece) - 1))
  ELSE piece

\* formatText without the two line breaks it appends.
formatText_Plain(text) == text

\* Issue.formatText: null and undefined are returned as they are; a text with
\* a piece that is not blank gets two line breaks appended.
formatText(text) ==
  IF text = NoText THEN NoText
  ELSE LET textSplitArray == SplitLines(text, <<>>) IN
       IF \E i \in DOMAIN textSplitArray : trim(textSplitArray[i]) # <<>>
         THEN text \o <<"\n", "\n">>
         ELSE text

\* Issue.orDefaultString: def for a false value, and for the empty string.
orDefaultString(stringA, def) ==
  IF stringA = NoText \/ stringA = <<>> THEN def
  ELSE IF Len(stringA) # 0 THEN stringA ELSE def

\* Issue.updateDescription
updateDescription(description) ==
  orDefaultString(formatText(description), <<"No details provided by bug reporter.">>)

\* ------------------------------------------------------------- the labels
\* A string that is undefined, and the booleans as attribute values.
UndefinedString == "(undefined)"
True == "true"
False == "false"

\* The values JavaScript takes for true in a condition.
Truthy(v) == v \notin {UndefinedString, "", False}

\* createLabel: `${prepend}.${value}`, as the name, the dot and the value.
createLabel(prepend, value) == <<prepend, ".", value>>

\* The labels a record may carry: of the namespaces the Issue reads, of a
\* namespace it does not know, and the bare tokens.
LabelPool ==
  {createLabel("severity", "High"), createLabel("severity", "Low"),
   createLabel("type", "FunctionalityBug"), createLabel("status", "Done"),
   createLabel("pending", "1"), createLabel("priority", "High"),
   <<"duplicate">>, <<"unsure">>}

LabelLists == UNION {[1..n -> LabelPool] : n \in 0..MaxLabels}

\* The labels of namespace name in their order.
RECURSIVE LabelsOf(_, _)
LabelsOf(labels, name) ==
  IF labels = <<>> THEN <<>>
  ELSE (IF Len(Head(labels)) = 3 /\ Head(labels)[1] = name /\ Head(labels)[2] = "."
          THEN <<Head(labels)>> ELSE <<>>)
         \o LabelsOf(Tail(labels), name)

\* githubIssue.findLabel(name): the value of the first label `name.value`,
\* undefined without one.
findLabel(labels, name) ==
  LET found == LabelsOf(labels, name) IN
  IF found = <<>> THEN UndefinedString ELSE found[1][3]

\* githubIssue.findLabel(name, false): the bare label name, undefined without it.
findBareLabel(labels, name) ==
  IF \E i \in DOMAIN labels : labels[i] = <<name>> THEN name ELSE UndefinedString

\* ------------------------------------------------------ the Issue in full
\* The records the remote may answer with: one issue number, every body and
\* every list of labels.
Bodies ==
  {NoText} \cup {embedDataIntoString(text, data) :
                   text \in Texts, data \in {<<>>} \cup {<<e>> : e \in HiddenEntries}}

GithubRecords ==
  [kind : {"GithubIssue"}, number : {1}, body : Bodies, labels : LabelLists]

\* An Issue without a team: teamAssigned is undefined.
NoTeam == [id |-> UndefinedString]

\* The teams an Issue may be assigned to, by their id.
Teams == {[id |-> "CS2103-W12-3"], [id |-> "W12"]}

\* new Issue(githubIssue): reading a field of an undefined record raises;
\* unsure, teamAssigned and githubIssue are assigned nowhere.
NewIssue(record) ==
  IF record = Undefined THEN Raised
  ELSE [kind |-> "Issue",
        id |-> record.number,
        hiddenDataInDescription |-> HiddenData(record.body).data,
        description |->
          updateDescription(HiddenData(record.body).originalStringWithoutHiddenData),
        labels |-> record.labels,
        severity |-> findLabel(record.labels, "severity"),
        type |-> findLabel(record.labels, "type"),
        responseTag |-> findLabel(record.labels, "response"),
        duplicated |-> (IF Truthy(findBareLabel(record.labels, "duplicate"))
                          THEN True ELSE False),
        status |-> findLabel(record.labels, "status"),
        pending |-> findLabel(record.labels, "pending"),
        unsure |-> UndefinedString,
        teamAssigned |-> NoTeam,
        githubComments |-> Undefined,
        issueComment |-> Undefined,
        teamResponse |-> NoText,
        testerResponses |-> Undefined,
        issueDisputes |-> Undefined,
        githubIssue |-> Undefined]

\* createIssueModel on a record in full: Issue.createPhaseBugReportingIssue in
\* the phase issuesViewer, nothing in any other.
IssueModel(phase, record) ==
  IF phase = "issuesViewer" THEN NewIssue(record) ELSE Undefined

\* id.split('-') of the team ids.
split(id) ==
  CASE id = "CS2103-W12-3" -> <<"CS2103", "W12", "3">>
    [] OTHER -> <<id>>

\* studentTeam[i] inside a template string: the text undefined past the end.
Part(studentTeam, i) == IF i <= Len(studentTeam) THEN studentTeam[i] ELSE "undefined"

\* `${a}-${b}` of the parts of the team ids.
Hyphen(a, b) ==
  CASE a = "CS2103" /\ b = "W12" -> "CS2103-W12"
    [] OTHER -> "W12-undefined"

\* +issue.pending
ToNumber(v) == CASE v = "1" -> 1 [] v = "2" -> 2 [] OTHER -> 0

\* The labels createLabelsForIssue pushes after the team labels: one for each
\* attribute that is set, pending only above zero.
AttributeLabels(attrs) ==
  (IF Truthy(attrs.severity) THEN <<createLabel("severity", attrs.severity)>> ELSE <<>>)
  \o (IF Truthy(attrs.type) THEN <<createLabel("type", attrs.type)>> ELSE <<>>)
  \o (IF Truthy(attrs.responseTag)
        THEN <<createLabel("response", attrs.responseTag)>> ELSE <<>>)
  \o (IF Truthy(attrs.duplicated) THEN <<<<"duplicate">>>> ELSE <<>>)
  \o (IF Truthy(attrs.status) THEN <<createLabel("status", attrs.status)>> ELSE <<>>)
  \o (IF Truthy(attrs.pending) /\ ToNumber(attrs.pending) > 0
        THEN <<createLabel("pending", attrs.pending)>> ELSE <<>>)
  \o (IF Truthy(attrs.unsure) THEN <<<<"unsure">>>> ELSE <<>>)

\* Whether createLabelsForIssue takes the branch of the team labels:
\* this.phaseService.currentPhase !== Phase.issuesViewer.
EmitsTeamLabels(phase) == phase # "issuesViewer"

\* createLabelsForIssue: the team labels in their branch, which raises on an
\* Issue without a team, then the labels of the attributes.
createLabelsForIssue(phase, attrs) ==
  IF EmitsTeamLabels(phase)
    THEN IF attrs.teamAssigned = NoTeam
           THEN [raised |-> TRUE, result |-> <<>>]
           ELSE LET studentTeam == split(attrs.teamAssigned.id) IN
                [raised |-> FALSE,
                 result |-> <<createLabel("tutorial",
                                          Hyphen(Part(studentTeam, 1), Part(studentTeam, 2))),
                              createLabel("team", Part(studentTeam, 3))>>
                            \o AttributeLabels(attrs)]
    ELSE [raised |-> FALSE, result |-> AttributeLabels(attrs)]

\* issue.createGithubIssueDescription(): `${description}\n${hidden data}`.
createGithubIssueDescription(attrs) ==
  attrs.description \o <<"\n">> \o attrs.hiddenDataInDescription

\* The record every held Issue was built from.
BaseRecord ==
  [kind |-> "GithubIssue", number |-> 1, body |-> <<"desc">>, labels |-> <<>>]

\* issue.githubComments as a list of comment ids, and the empty list.
Comments(ids) == [kind |-> "list", ids |-> ids]

NoComments == Comments(<<>>)

\* The Issues a caller may hold before an update: built from a record, with
\* its attributes set since.
HeldIssues ==
  {[NewIssue(BaseRecord) EXCEPT
      !.githubComments = a.githubComments,
      !.severity = a.severity, !.type = a.type, !.responseTag = a.responseTag,
      !.duplicated = a.duplicated, !.status = a.status, !.pending = a.pending,
      !.unsure = a.unsure, !.teamAssigned = a.teamAssigned] :
   a \in [severity : {UndefinedString, "High"},
          type : {UndefinedString, "FunctionalityBug"},
          responseTag : {UndefinedString, "Accepted"},
          duplicated : {False, True},
          status : {UndefinedString, "Done"},
          pending : {UndefinedString, "0", "1"},
          unsure : {UndefinedString, True},
          teamAssigned : {NoTeam} \cup Teams,
          githubComments : {Undefined, NoComments}]}

\* A caller holds an Issue.
InitIssue ==
  /\ InitService
  /\ currentPhase \in Phases
  /\ remoteIssue = Undefined
  /\ localIssue \in HeldIssues
  /\ returned = Undefined
  /\ flow = "none"
  /\ pendingCall = "none"
  /\ lastOp = Op("constructor")

\* The call githubService.updateIssue(issue.id, title, description, labels,
\* assignees) of updateIssue(issue): createLabelsForIssue may raise before the
\* call is made; else the remote is asked for the record with these labels.
CallUpdateIssue(name, operation) ==
  LET labels == createLabelsForIssue(currentPhase, localIssue) IN
  IF labels.raised
    THEN /\ flow' = "none"
         /\ pendingCall' = "none"
         /\ returned' = Raised
         /\ lastOp' = [Op(name) EXCEPT !.raised = TRUE]
         /\ UNCHANGED remoteIssue
    ELSE /\ flow' = operation
         /\ pendingCall' = "updateIssue"
         /\ remoteIssue' = [kind |-> "GithubIssue", number |-> localIssue.id,
                            body |-> createGithubIssueDescription(localIssue),
                            labels |-> labels.result]
         /\ returned' = Undefined
         /\ lastOp' = [Op(name) EXCEPT !.fetch = TRUE]

\* updateIssue(issue), subscribed.
updateIssue ==
  /\ flow = "none"
  /\ CallUpdateIssue("updateIssue", "updateIssue")
  /\ UNCHANGED <<currentPhase, localIssue, serviceVars>>

\* githubService.updateIssue answers with the updated record: the map callback
\* of updateIssue returns createIssueModel(response).
UpdateIssueResponse ==
  /\ pendingCall = "updateIssue"
  /\ pendingCall' = "none"
  /\ flow' = "none"
  /\ returned' = IssueModel(currentPhase, remoteIssue)
  /\ lastOp' = Op("updateIssueResponse")
  /\ UNCHANGED <<currentPhase, remoteIssue, localIssue, serviceVars>>

\* githubService.updateIssue fails: the error goes to the caller.
UpdateIssueError ==
  /\ pendingCall = "updateIssue"
  /\ pendingCall' = "none"
  /\ flow' = "none"
  /\ returned' = Raised
  /\ lastOp' = [Op("updateIssueError") EXCEPT !.raised = TRUE]
  /\ UNCHANGED <<currentPhase, remoteIssue, localIssue, serviceVars>>

\* updateIssueWithAssigneeCheck(issue), subscribed: areUsersAssignable(assignees)
\* is asked first.
updateIssueWithAssigneeCheck_NoCheck ==
  /\ flow = "none"
  /\ CallUpdateIssue("updateIssueWithAssigneeCheck", "updateIssueWithAssigneeCheck")
  /\ UNCHANGED <<currentPhase, localIssue, serviceVars>>

updateIssueWithAssigneeCheck ==
  /\ flow = "none"
  /\ flow' = "updateIssueWithAssigneeCheck"
  /\ pendingCall' = "areUsersAssignable"
  /\ returned' = Undefined
  /\ lastOp' = Op("updateIssueWithAssigneeCheck")
  /\ UNCHANGED <<currentPhase, remoteIssue, localIssue, serviceVars>>

\* createTeamResponse(issue), subscribed: createGithubTeamResponse() builds a
\* string, then areUsersAssignable(issue.assignees || []) is asked first.
createTeamResponse ==
  /\ flow = "none"
  /\ flow' = "createTeamResponse"
  /\ pendingCall' = "areUsersAssignable"
  /\ returned' = Undefined
  /\ lastOp' = Op("createTeamResponse")
  /\ UNCHANGED <<currentPhase, remoteIssue, localIssue, serviceVars>>

\* areUsersAssignable succeeds: the flatMap callback runs, this.updateIssue(issue)
\* in updateIssueWithAssigneeCheck, githubService.createIssueComment in
\* createTeamResponse.
AssignableOk ==
  /\ pendingCall = "areUsersAssignable"
  /\ IF flow = "updateIssueWithAssigneeCheck"
       THEN CallUpdateIssue("areUsersAssignableOk", flow)
       ELSE /\ pendingCall' = "createIssueComment"
            /\ lastOp' = [Op("areUsersAssignableOk") EXCEPT !.fetch = TRUE]
            /\ UNCHANGED <<flow, returned, remoteIssue>>
  /\ UNCHANGED <<currentPhase, localIssue, serviceVars>>

\* areUsersAssignable fails: no callback runs, the error goes to the caller
\* (catchError rethrows it in createTeamResponse).
AssignableFails ==
  /\ pendingCall = "areUsersAssignable"
  /\ pendingCall' = "none"
  /\ flow' = "none"
  /\ returned' = Raised
  /\ lastOp' = [Op("areUsersAssignableError") EXCEPT !.raised = TRUE]
  /\ UNCHANGED <<currentPhase, remoteIssue, localIssue, serviceVars>>

\* createIssueComment answers with the comment: issue.githubComments becomes
\* [githubComment, ...issue.githubComments.filter(c => c.id !== githubComment.id)]
\* (raising on an Issue whose githubComments is undefined), then
\* this.updateIssue(issue).
CreateCommentResponse ==
  /\ pendingCall = "createIssueComment"
  /\ \E githubComment \in {1} :
       IF localIssue.githubComments = Undefined
         THEN /\ pendingCall' = "none"
              /\ flow' = "none"
              /\ returned' = Raised
              /\ lastOp' = [Op("createIssueCommentResponse") EXCEPT !.raised = TRUE]
              /\ UNCHANGED <<remoteIssue, localIssue>>
         ELSE /\ localIssue' =
                   [localIssue EXCEPT !.githubComments =
                      Comments(<<githubComment>> \o
                               SelectSeq(localIssue.githubComments.ids,
                                         LAMBDA c : c # githubComment))]
              /\ CallUpdateIssue("createIssueCommentResponse", flow)
  /\ UNCHANGED <<currentPhase, serviceVars>>

\* createIssueComment fails: the error goes to the caller.
CreateCommentError ==
  /\ pendingCall = "createIssueComment"
  /\ pendingCall' = "none"
  /\ flow' = "none"
  /\ returned' = Raised
  /\ lastOp' = [Op("createIssueCommentError") EXCEPT !.raised = TRUE]
  /\ UNCHANGED <<currentPhase, remoteIssue, localIssue, serviceVars>>

\* issue.clone(phase): Issue.createPhaseBugReportingIssue(this.githubIssue) in
\* either case of its switch.
clone(attrs, phase) ==
  IF phase = "issuesViewer"
    THEN NewIssue(attrs.githubIssue)
    ELSE NewIssue(attrs.githubIssue)

\* issue.clone(this.phaseService.currentPhase) on the held Issue, as
\* updateTesterResponse calls it.
CloneIssue ==
  /\ flow = "none"
  /\ returned' = clone(localIssue, currentPhase)
  /\ lastOp' = [Op("clone") EXCEPT !.raised = (clone(localIssue, currentPhase) = Raised)]
  /\ UNCHANGED <<currentPhase, remoteIssue, localIssue, flow, pendingCall, serviceVars>>

\* ---------------------------------------------------------- the templates
\* The sections a comment and the body of an issue may hold; a comment or a
\* body with none of them has no recognizable section.
CommentSections == {"moderation", "teamResponse", "testerResponse"}

BodySections == {"description", "teamResponse", "dispute"}

\* The resolutions a moderation section lists, each done or not.
Resolutions == UNION {[1..n -> BOOLEAN] : n \in 0..MaxDisputes}

\* A comment holds tester sections, or a moderation section with its
\* resolutions, or nothing that is recognized.
GithubComments ==
  {c \in [kind : {"GithubComment"}, id : {1}, sections : SUBSET CommentSections,
          resolutions : Resolutions] :
     IF "moderation" \in c.sections
       THEN c.sections = {"moderation"}
       ELSE c.resolutions = <<>>}

\* A JavaScript array held in a field.
List(items) == [kind |-> "list", items |-> items]

\* An IssueDispute: its description and whether its todo is ticked.
Dispute(description, done) ==
  [kind |-> "dispute", description |-> description, done |-> done]

\* dispute.isDone()
isDone(dispute) == dispute.done

\* The description of the i-th dispute of a body, told from the others by
\* its length.
DisputeText(i) == <<"dispute">> \o [j \in 1..i |-> "."]

\* The first of the comments that holds one of the sections, if any.
Conforming(comments, sections) ==
  LET found == {i \in DOMAIN comments : comments[i].sections \cap sections # {}} IN
  IF found = {} THEN Undefined ELSE comments[Min(found)]

\* new TutorModerationTodoTemplate(comments): the tutor's resolutions of the
\* latest comment; a section that is not found is left unset.
TutorModerationTodoTemplate(comments) ==
  LET conforming == Conforming(comments, {"moderation"}) IN
  [comment |-> conforming,
   moderation |-> IF conforming = Undefined THEN Undefined
                  ELSE [kind |-> "section",
                        disputesToResolve |->
                          [i \in DOMAIN conforming.resolutions |->
                             Dispute(<<"todo">>, conforming.resolutions[i])]],
   parseFailure |-> (conforming = Undefined)]

\* new TesterResponseTemplate(comments)
TesterResponseTemplate(comments) ==
  LET conforming == Conforming(comments, {"teamResponse", "testerResponse"}) IN
  [comment |-> conforming,
   teamResponse |-> IF conforming # Undefined /\ "teamResponse" \in conforming.sections
                      THEN [kind |-> "section", content |-> <<"response">>]
                      ELSE Undefined,
   testerResponse |-> IF conforming # Undefined /\ "testerResponse" \in conforming.sections
                        THEN [kind |-> "section", testerResponses |-> List(<<"item">>)]
                        ELSE Undefined,
   parseFailure |-> (conforming = Undefined)]

\* new TutorModerationIssueTemplate(githubIssue): the sections of the body of
\* the issue.
TutorModerationIssueTemplate(record) ==
  [description |-> IF "description" \in record.sections
                     THEN [kind |-> "section", content |-> record.body]
                     ELSE Undefined,
   teamResponse |-> IF "teamResponse" \in record.sections
                      THEN [kind |-> "section", content |-> <<"response">>]
                      ELSE Undefined,
   dispute |-> IF "dispute" \in record.sections
                 THEN [kind |-> "section",
                       disputes |-> [i \in 1..record.disputes |->
                                       Dispute(DisputeText(i), FALSE)]]
                 ELSE Undefined,
   parseFailure |-> (record.sections = {})]

\* Issue.updateTeamResponse
updateTeamResponse(teamResponse) ==
  orDefaultString(formatText(teamResponse), <<"No details provided by team.">>)

\* disputesToResolve.map((dispute, i) => { dispute.description =
\* descriptions[i].description; return dispute; }): reading the description of
\* an element an undefined or shorter array lacks raises.
ZipDisputes(disputesToResolve, descriptions) ==
  IF \E i \in DOMAIN disputesToResolve :
       descriptions = Undefined \/ i > Len(descriptions.items)
    THEN Raised
    ELSE List([i \in DOMAIN disputesToResolve |->
                 [disputesToResolve[i] EXCEPT
                    !.description = descriptions.items[i].description]])

\* issue.updateTesterResponse(githubComment): every section is read behind a
\* guard.
updateTesterResponse(attrs, githubComment) ==
  LET template == TesterResponseTemplate(<<githubComment>>) IN
  [raised |-> FALSE,
   issue |-> [attrs EXCEPT
                !.issueComment = template.comment,
                !.teamResponse = IF template.teamResponse = Undefined THEN NoText
                                 ELSE template.teamResponse.content,
                !.testerResponses = IF template.testerResponse = Undefined THEN Undefined
                                    ELSE template.testerResponse.testerResponses]]

\* issue.updateDispute(githubComment): issueComment is assigned, then
\* todoTemplate.moderation.disputesToResolve is read without a guard.
updateDispute(attrs, githubComment) ==
  LET todoTemplate == TutorModerationTodoTemplate(<<githubComment>>)
      withComment == [attrs EXCEPT !.issueComment = todoTemplate.comment]
  IN IF todoTemplate.moderation = Undefined
       THEN [raised |-> TRUE, issue |-> withComment]
       ELSE LET zipped == ZipDisputes(todoTemplate.moderation.disputesToResolve,
                                      attrs.issueDisputes)
            IN IF zipped = Raised
                 THEN [raised |-> TRUE, issue |-> withComment]
                 ELSE [raised |-> FALSE,
                       issue |-> [withComment EXCEPT !.issueDisputes = zipped]]

\* Issue.createPhaseModerationIssue(githubIssue, teamData):
\* issueTemplate.description.content and issueTemplate.dispute.disputes are
\* read without a guard, the team response and the todo template behind one.
createPhaseModerationIssue(record, teamData) ==
  LET issue == NewIssue(record)
      issueTemplate == TutorModerationIssueTemplate(record)
      todoTemplate == TutorModerationTodoTemplate(record.comments)
  IN IF issueTemplate.description = Undefined \/ issueTemplate.dispute = Undefined
       THEN Raised
       ELSE LET base ==
                  [issue EXCEPT
                     !.githubComments =
                        Comments([i \in DOMAIN record.comments |-> record.comments[i].id]),
                     !.teamAssigned = teamData,
                     !.description = issueTemplate.description.content,
                     !.teamResponse =
                        IF issueTemplate.teamResponse = Undefined THEN NoText
                        ELSE updateTeamResponse(issueTemplate.teamResponse.content),
                     !.issueDisputes = List(issueTemplate.dispute.disputes)]
            IN IF todoTemplate.moderation # Undefined /\ todoTemplate.comment # Undefined
                 THEN LET zipped == ZipDisputes(todoTemplate.moderation.disputesToResolve,
                                                List(issueTemplate.dispute.disputes))
                      IN IF zipped = Raised THEN Raised
                         ELSE [base EXCEPT !.issueDisputes = zipped,
                                           !.issueComment = todoTemplate.comment]
                 ELSE base

\* The records of the moderation phase: the body holds sections, and the
\* record carries its comments.
ModerationRecords ==
  {r \in [kind : {"GithubIssue"}, number : {1}, body : {<<"desc">>}, labels : {<<>>},
          sections : SUBSET BodySections, disputes : 0..MaxDisputes,
          comments : {<<>>} \cup {<<c>> : c \in GithubComments}] :
     "dispute" \notin r.sections => r.disputes = 0}

\* A record of the moderation phase has been fetched.
InitModeration ==
  /\ InitService
  /\ currentPhase \in Phases
  /\ remoteIssue \in ModerationRecords
  /\ localIssue = Undefined
  /\ returned = Undefined
  /\ flow = "none"
  /\ pendingCall = "none"
  /\ lastOp = Op("constructor")

\* Issue.createPhaseModerationIssue on the fetched record.
CreateModerationIssue ==
  /\ lastOp.op = "constructor"
  /\ \E teamData \in Teams :
       \E created \in {createPhaseModerationIssue(remoteIssue, teamData)} :
         /\ localIssue' = IF created = Raised THEN localIssue ELSE created
         /\ returned' = created
         /\ lastOp' = [Op("createPhaseModerationIssue") EXCEPT
                         !.raised = (created = Raised), !.input = remoteIssue]
  /\ UNCHANGED <<currentPhase, remoteIssue, flow, pendingCall, serviceVars>>

\* issue.updateDispute(githubComment) on the held Issue, as updateTutorResponse
\* calls it on the Issue its update returned.
UpdateDispute ==
  /\ localIssue.kind = "Issue"
  /\ \E githubComment \in GithubComments :
       \E updated \in {updateDispute(localIssue, githubComment)} :
         /\ localIssue' = updated.issue
         /\ returned' = IF updated.raised THEN Raised ELSE Undefined
         /\ lastOp' = [Op("updateDispute") EXCEPT
                         !.raised = updated.raised, !.input = githubComment]
  /\ UNCHANGED <<currentPhase, remoteIssue, flow, pendingCall, serviceVars>>

\* issue.updateTesterResponse(githubComment) on the held Issue.
UpdateTesterResponse ==
  /\ localIssue.kind = "Issue"
  /\ \E githubComment \in GithubComments :
       \E updated \in {updateTesterResponse(localIssue, githubComment)} :
         /\ localIssue' = updated.issue
         /\ returned' = IF updated.raised THEN Raised ELSE Undefined
         /\ lastOp' = [Op("updateTesterResponse") EXCEPT
                         !.raised = updated.raised, !.input = githubComment]
  /\ UNCHANGED <<currentPhase, remoteIssue, flow, pendingCall, serviceVars>>

\* issueDisputes.reduce((prev, current) => prev + Number(!current.isDone()), 0)
RECURSIVE reduceUnresolved(_, _)
reduceUnresolved(disputes, prev) ==
  IF disputes = <<>> THEN prev
  ELSE reduceUnresolved(Tail(disputes),
                        prev + (IF ~isDone(Head(disputes)) THEN 1 ELSE 0))

\* The count of the disputes that are done instead.
numOfUnresolvedDisputes_CountsDone(attrs) ==
  IF attrs.issueDisputes = Undefined THEN 0
  ELSE Len(attrs.issueDisputes.items) - reduceUnresolved(attrs.issueDisputes.items, 0)

\* issue.numOfUnresolvedDisputes(): 0 without a dispute list.
numOfUnresolvedDisputes(attrs) ==
  IF attrs.issueDisputes = Undefined THEN 0
  ELSE reduceUnresolved(attrs.issueDisputes.items, 0)

\* issue.numOfUnresolvedDisputes() on the held Issue.
CountUnresolvedDisputes ==
  /\ localIssue.kind = "Issue"
  /\ returned' = [kind |-> "number", value |-> numOfUnresolvedDisputes(localIssue)]
  /\ lastOp' = Op("numOfUnresolvedDisputes")
  /\ UNCHANGED <<currentPhase, remoteIssue, localIssue, flow, pendingCall, serviceVars>>

\* A record has been fetched.
InitRecord ==
  /\ InitService
  /\ currentPhase \in Phases
  /\ remoteIssue \in GithubRecords
  /\ localIssue = Undefined
  /\ returned = Undefined
  /\ flow = "none"
  /\ pendingCall = "none"
  /\ lastOp = Op("constructor")

\* createIssueModel(githubIssue) on the fetched record.
BuildIssue ==
  /\ lastOp.op = "constructor"
  /\ localIssue' = IssueModel(currentPhase, remoteIssue)
  /\ lastOp' = Op("createIssueModel")
  /\ UNCHANGED <<currentPhase, remoteIssue, returned, flow, pendingCall, serviceVars>>

\* ------------------------------------------------------ the specifications
SessionIds == {"abc"}

\* The poll driver, the merge of its batches, the session id and reset.
Next ==
  \/ startPollIssues
  \/ stopPollIssues
  \/ \E role \in Roles : Tick(role)
  \/ \E batch \in Batches : PollResponse(batch)
  \/ PollError
  \/ StaleResponse
  \/ \E id \in SessionIds : setSessionId(id)
  \/ \E b \in BOOLEAN : reset(b)

Spec == Init /\ [][Next]_vars

\* The timer of an active poll keeps firing.
FairSpec == Spec /\ WF_vars(\E role \in Roles : Tick(role))

\* The single-issue reads and polls on the store, and reset.
NextIssue ==
  \/ \E id \in Ids : getIssue(id)
  \/ \E id \in Ids : getLatestIssue(id)
  \/ \E id \in Ids, ver \in Vers : GetLatestResponse(id, ver)
  \/ \E id \in Ids : GetLatestError(id)
  \/ \E id \in Ids : pollIssue(id)
  \/ \E id \in Ids, ver \in Vers : PollIssueResponse(id, ver)
  \/ \E id \in Ids : PollIssueError(id)
  \/ \E b \in BOOLEAN : reset(b)

SpecIssue == Init /\ [][NextIssue]_vars

\* The merges of a poll that is started once, interleaved with the single-id
\* upserts of pollIssue and getLatestIssue.
NextUpsert ==
  \/ issuesPollSubscription = "undefined" /\ startPollIssues
  \/ \E role \in DOMAIN IssuesFilter["issuesViewer"] : Tick(role)
  \/ \E batch \in Batches : PollResponse(batch)
  \/ \E id \in Ids : pollIssue(id)
  \/ \E id \in Ids, ver \in Vers : PollIssueResponse(id, ver)
  \/ \E id \in Ids : getLatestIssue(id)
  \/ \E id \in Ids, ver \in Vers : GetLatestResponse(id, ver)

SpecUpsert == Init /\ [][NextUpsert]_vars

\* The operations that write the store: the merges of the poll with their
\* upserts and evictions, deleteIssue, and reset.
NextStore ==
  \/ issuesPollSubscription = "undefined" /\ startPollIssues
  \/ \E role \in DOMAIN IssuesFilter["issuesViewer"] : Tick(role)
  \/ \E batch \in Batches : PollResponse(batch)
  \/ StaleResponse
  \/ \E id \in Ids : deleteIssue(id)
  \/ \E id \in Ids, ver \in Vers : DeleteIssueResponse(id, ver)
  \/ \E id \in Ids : DeleteIssueError(id)
  \/ \E b \in BOOLEAN : reset(b)

SpecStore == Init /\ [][NextStore]_vars

\* The construction of an Issue from a fetched record.
NextRecord == BuildIssue

SpecRecord == InitRecord /\ [][NextRecord]_vars

\* The construction of an Issue of the moderation phase and the updates of its
\* responses.
NextParse ==
  \/ BuildIssue
  \/ CreateModerationIssue
  \/ UpdateDispute
  \/ UpdateTesterResponse

SpecParse == InitModeration /\ [][NextParse]_vars

\* The disputes of an Issue: built, resolved by a comment, counted.
NextDispute ==
  \/ BuildIssue
  \/ CreateModerationIssue
  \/ UpdateDispute
  \/ CountUnresolvedDisputes

SpecDispute == InitModeration /\ [][NextDispute]_vars

\* The updates that check the assignees first, on a held Issue.
NextAssign ==
  \/ updateIssueWithAssigneeCheck
  \/ createTeamResponse
  \/ AssignableOk
  \/ AssignableFails
  \/ CreateCommentResponse
  \/ CreateCommentError
  \/ UpdateIssueResponse
  \/ UpdateIssueError

SpecAssign == InitIssue /\ [][NextAssign]_vars

\* updateIssue and clone on a held Issue.
NextUpdate ==
  \/ CloneIssue
  \/ updateIssue
  \/ UpdateIssueResponse
  \/ UpdateIssueError

SpecUpdate == InitIssue /\ [][NextUpdate]_vars

\* ------------------------------------------------------------ the claims
\* The issue numbers of a batch.
BatchIds(batch) == {batch[i].number : i \in DOMAIN batch}

\* C1: merging a non-empty batch into an initialized store leaves the key set
\* of the store equal to the ids of the batch: the merge does not raise, every
\* id of the batch is a key, and exactly the keys the batch lacks were evicted.
C1_MergeKeepsExactlyBatchIds ==
  [][(lastOp'.op = "merge" /\ lastOp'.batch # <<>> /\ issues.defined)
       => /\ ~lastOp'.raised
          /\ issues'.defined
          /\ Keys(issues') = BatchIds(lastOp'.batch)
          /\ lastOp'.evicted = Keys(issues) \ BatchIds(lastOp'.batch)]_vars

\* A merge of a batch that lists issue 1 alone has just evicted issue 2 from
\* the store.
C1_Witness ==
  /\ lastOp.op = "merge"
  /\ lastOp.wasDefined
  /\ BatchIds(lastOp.batch) = {1}
  /\ lastOp.evicted = {2}
  /\ Keys(issues) = {1}

\* C2: a cycle whose fetch answers with the empty batch leaves the store and
\* the published snapshot as they were and evicts nothing, whether the store
\* was initialized or not.
C2_EmptyBatchChangesNothing ==
  [][(lastOp'.op = "merge" /\ lastOp'.batch = <<>>)
       => /\ issues' = issues
          /\ issuesSubject' = issuesSubject
          /\ lastOp'.evicted = {}]_vars

\* The empty batch was just merged into a store that holds issues.
C2_Witness ==
  /\ lastOp.op = "merge"
  /\ lastOp.batch = <<>>
  /\ lastOp.wasDefined
  /\ Keys(issues) # {}

\* C3: a merge into an undefined store evicts nothing and leaves exactly the
\* ids of the batch in the store.
C3_FirstFetchNeverEvicts ==
  [][(lastOp'.op = "merge" /\ ~issues.defined)
       => /\ lastOp'.evicted = {}
          /\ Keys(issues') = BatchIds(lastOp'.batch)
          /\ Len(issuesSubject') = Cardinality(BatchIds(lastOp'.batch))]_vars

\* A batch of two issues was just merged into an undefined store.
C3_Witness ==
  /\ lastOp.op = "merge"
  /\ ~lastOp.wasDefined
  /\ Cardinality(BatchIds(lastOp.batch)) = 2
  /\ Keys(issues) = BatchIds(lastOp.batch)

\* C4: a merge of the batch that the previous store write merged leaves the
\* store (its ids and the entry of each id) and the snapshot as they were, and
\* evicts nothing.
C4_MergeIdempotent ==
  [][(lastOp'.op = "merge" /\ lastOp'.again)
       => /\ issues' = issues
          /\ issuesSubject' = issuesSubject
          /\ lastOp'.evicted = {}
          /\ ~lastOp'.raised]_vars

\* The same non-empty batch was merged twice in a row into a store that holds
\* fewer than all issues.
C4_Witness ==
  /\ lastOp.op = "merge"
  /\ lastOp.again
  /\ lastOp.batch # <<>>
  /\ Keys(issues) = BatchIds(lastOp.batch)
  /\ Keys(issues) # Ids

\* The operations that are a value of the poll's timer.
TickOps == {"tickDropped", "tickThrew", "tickEmpty", "tickFetch"}

\* Everything but the record of the last operation.
allButLastOp == <<currentPhase, issues, issuesSubject, sessionId, issuesPollSubscription,
                  isLoading, nextTick, hasSubscription, liveFetches, staleFetches,
                  pendingGets, pendingPolls, pendingCloses, remoteIssue, localIssue,
                  returned, flow, pendingCall, prevBatch>>

\* C5: at most one cycle of the poll is in flight; a tick that fires while a
\* cycle is subscribed starts no fetch and changes nothing; a fetch starts
\* only in a tick step out of a state without a cycle, so no dropped tick
\* runs when the cycle ends.
C5_SingleFlight ==
  /\ [](liveFetches <= 1 /\ (hasSubscription <=> liveFetches = 1))
  /\ [][
        /\ ((lastOp'.op \in TickOps /\ hasSubscription)
              => (/\ lastOp'.op = "tickDropped"
                  /\ hasSubscription'
                  /\ liveFetches' = liveFetches
                  /\ staleFetches' = staleFetches
                  /\ issues' = issues
                  /\ issuesSubject' = issuesSubject))
        /\ ((liveFetches' > liveFetches)
              => (lastOp'.op = "tickFetch" /\ liveFetches = 0 /\ ~hasSubscription))
        /\ ((lastOp'.op \in {"merge", "pollError"})
              => (liveFetches' = 0 /\ ~hasSubscription'))
       ]_vars

\* A tick was just dropped because a cycle is in flight.
C5_Witness ==
  /\ lastOp.op = "tickDropped"
  /\ hasSubscription
  /\ liveFetches = 1

\* C6: a cycle that fails with a remote error leaves the poll subscription
\* active with its timer running, no cycle subscribed, and the store and the
\* snapshot unchanged; the next tick after it starts a cycle; and with a timer
\* that keeps firing a cycle starts eventually unless the poll is stopped.
C6_RemoteErrorSwallowed ==
  /\ [][
        /\ ((lastOp'.op = "pollError")
              => (/\ issuesPollSubscription' = "active"
                  /\ nextTick' = "later"
                  /\ ~hasSubscription'
                  /\ issues' = issues
                  /\ issuesSubject' = issuesSubject))
        /\ ((lastOp.op = "pollError" /\ lastOp'.op \in TickOps)
              => (lastOp'.op \in {"tickFetch", "tickEmpty"}))
       ]_vars
  /\ ((lastOp.op = "pollError")
        ~> (lastOp.op \in {"tickFetch", "tickEmpty"} \/ issuesPollSubscription = "undefined"))

\* A cycle has just failed with a remote error on a store that holds issues.
C6_Witness ==
  /\ lastOp.op = "pollError"
  /\ issuesPollSubscription = "active"
  /\ Keys(issues) # {}

\* A step that ends a subscribed cycle of the poll: its merge, its remote
\* error, its cancellation by an unsubscribe, or an of([]) that completes at
\* once.
CycleEnds ==
  \/ hasSubscription /\ ~hasSubscription'
  \/ lastOp'.op \in {"merge", "pollError", "tickEmpty"}

\* C7: every step that ends a cycle of the poll leaves isLoading false, and
\* isLoading becomes true in a startPollIssues step only.
C7_LoadingClearedAtCycleEnd ==
  [][
     /\ (CycleEnds => ~isLoading')
     /\ ((isLoading' /\ ~isLoading) => (lastOp'.op = "startPollIssues"))
    ]_vars

\* stopPollIssues has just cancelled the first cycle of a poll that was
\* started on an empty snapshot.
C7_Witness ==
  /\ lastOp.op = "stopPollIssues"
  /\ lastOp.hadCycle
  /\ ~issues.defined
  /\ ~isLoading

\* C8: startPollIssues with a subscription and stopPollIssues without one
\* change nothing; stopPollIssues leaves no subscription, no timer and no
\* subscribed cycle; startPollIssues without a subscription subscribes a new
\* timer whose tick 0 is due, with no cycle subscribed.
C8_StartStopIdempotent ==
  [][
     /\ ((lastOp'.op = "startPollIssues" /\ issuesPollSubscription # "undefined")
           => UNCHANGED allButLastOp)
     /\ ((lastOp'.op = "startPollIssues" /\ issuesPollSubscription = "undefined")
           => (/\ issuesPollSubscription' = "active"
               /\ nextTick' = "0"
               /\ ~hasSubscription'
               /\ liveFetches' = 0))
     /\ ((lastOp'.op = "stopPollIssues" /\ issuesPollSubscription = "undefined")
           => UNCHANGED allButLastOp)
     /\ ((lastOp'.op = "stopPollIssues")
           => (/\ issuesPollSubscription' = "undefined"
               /\ nextTick' = "none"
               /\ ~hasSubscription'
               /\ liveFetches' = 0))
    ]_vars

\* startPollIssues was just called while a cycle of the running poll was in
\* flight.
C8_Witness ==
  /\ lastOp.op = "startPollIssues"
  /\ lastOp.wasPolling
  /\ hasSubscription
  /\ nextTick = "later"

\* C9: stopPollIssues and reset leave no fetch whose answer is delivered; the
\* answer of an abandoned fetch changes neither the store nor the snapshot,
\* also after a later startPollIssues; and a batch is merged only for the
\* cycle of an active subscription.
C9_StaleCycleDiscarded ==
  [][
     /\ ((lastOp'.op = "staleResponse")
           => (issues' = issues /\ issuesSubject' = issuesSubject))
     /\ ((lastOp'.op \in {"stopPollIssues", "reset"})
           => (liveFetches' = 0 /\ staleFetches' = staleFetches + liveFetches))
     /\ ((lastOp'.op = "merge")
           => (issuesPollSubscription = "active" /\ hasSubscription))
    ]_vars

\* The answer of an abandoned fetch has just arrived after the poll was
\* started again and its new cycle filled the store.
C9_Witness ==
  /\ lastOp.op = "staleResponse"
  /\ issuesPollSubscription = "active"
  /\ Keys(issues) # {}

\* What C10 says of a step: getIssue on an undefined store issues the fetch
\* of that id; the answer of the fetch is saved in the store under the id and
\* returned; getIssue on a defined store issues no fetch and returns the entry
\* the store holds.
C10_Step ==
  /\ ((lastOp'.op = "getIssue" /\ ~issues.defined)
        => (/\ lastOp'.fetch
            /\ pendingGets' = pendingGets \cup {lastOp'.id}
            /\ issues' = issues))
  /\ ((lastOp'.op = "getLatestResponse")
        => (/\ ~lastOp'.raised
            /\ issues'.defined
            /\ Entry(issues', lastOp'.id) = createPhaseBugReportingIssue(lastOp'.batch[1])
            /\ lastOp'.ret = Entry(issues', lastOp'.id)))
  /\ ((lastOp'.op = "getIssue" /\ issues.defined)
        => (/\ ~lastOp'.fetch
            /\ pendingGets' = pendingGets
            /\ issues' = issues
            /\ lastOp'.ret = Entry(issues, lastOp'.id)))

\* C10: getIssue(id) on an undefined store fetches the issue, caches it and
\* returns it; on a defined store it returns the cached entry without a fetch.
C10_GetIssueFetchesOrReadsCache == [][C10_Step]_vars

\* C10 in the phase issuesViewer, where createIssueModel builds an Issue.
C10_InIssuesViewer == [][currentPhase = "issuesViewer" => C10_Step]_vars

\* C11: reset(resetSessionId) in any state leaves the store undefined, the
\* snapshot the empty list, no poll subscription (no timer, no subscribed
\* cycle), isLoading false, and the session id undefined when resetSessionId
\* is true and as it was when it is false.
C11_ResetClearsService ==
  [][(lastOp'.op = "reset")
       => (/\ issues' = UndefinedStore
           /\ issuesSubject' = <<>>
           /\ issuesPollSubscription' = "undefined"
           /\ nextTick' = "none"
           /\ ~hasSubscription'
           /\ liveFetches' = 0
           /\ ~isLoading'
           /\ sessionId' = (IF lastOp'.resetSessionId THEN "undefined" ELSE sessionId))]_vars

\* reset(false) has just ended a poll whose cycle was in flight, in a session
\* whose id stays set.
C11_Witness ==
  /\ lastOp.op = "reset"
  /\ ~lastOp.resetSessionId
  /\ lastOp.wasPolling
  /\ lastOp.hadCycle
  /\ sessionId = "abc"
  /\ ~issues.defined

\* The steps that commit a single-id upsert: the map callback of pollIssue or
\* of getLatestIssue saved its model.
UpsertCommitted == lastOp'.op \in {"pollIssueResponse", "getLatestResponse"} /\ ~lastOp'.raised

\* The step that commits a merge: the map callback of initializeData ran to
\* its end.
MergeCommitted == lastOp'.op = "merge" /\ ~lastOp'.raised

\* The Issue that batch holds for id.
IssueOf(batch, id) ==
  createPhaseBugReportingIssue(CHOOSE r \in {batch[i] : i \in DOMAIN batch} : r.number = id)

\* C12: commits of merges and of single-id upserts interleave with the last
\* write winning per id. An upsert of id X leaves X with the fetched issue and
\* every other id as it was; a merge leaves every id of its batch with the
\* issue of the batch; and the entry of an id changes only in a commit that
\* writes that id (an upsert of it, or a merge that lists or evicts it).
C12_LastWriteWins ==
  [][
     /\ (UpsertCommitted
           => (/\ Entry(issues', lastOp'.id) = createPhaseBugReportingIssue(lastOp'.batch[1])
               /\ Keys(issues') = Keys(issues) \cup {lastOp'.id}
               /\ \A y \in Ids \ {lastOp'.id} : Entry(issues', y) = Entry(issues, y)))
     /\ (MergeCommitted
           => (/\ \A y \in BatchIds(lastOp'.batch) :
                     Entry(issues', y) = IssueOf(lastOp'.batch, y)
               /\ \A y \in Ids \ BatchIds(lastOp'.batch) :
                     \/ Entry(issues', y) = Entry(issues, y)
                     \/ y \in lastOp'.evicted /\ y \notin Keys(issues')))
     /\ (\A y \in Ids :
           (Entry(issues', y) # Entry(issues, y))
             => \/ UpsertCommitted /\ lastOp'.id = y
                \/ MergeCommitted /\ y \in BatchIds(lastOp'.batch) \cup lastOp'.evicted)
    ]_vars

\* While a full refresh is in flight, pollIssue has just overwritten issue 1,
\* which the last merge had stored together with issue 2.
C12_Witness ==
  /\ lastOp.op = "pollIssueResponse"
  /\ ~lastOp.raised
  /\ lastOp.id = 1
  /\ liveFetches = 1
  /\ Keys(issues) = {1, 2}
  /\ Entry(issues, 1).ver = 2
  /\ Entry(issues, 2).ver = 1

\* C13: in every reachable state the value of issues$ is the list of the
\* store's entries, the empty list for an undefined store: each upsert,
\* eviction, deleteFromLocalStore and reset publishes what it leaves.
C13_SnapshotMirrorsStore == issuesSubject = ObjectValues(issues)

\* deleteIssue has just removed issue 1 from a store that keeps issue 2.
C13_Witness ==
  /\ lastOp.op = "deleteIssueResponse"
  /\ ~lastOp.raised
  /\ lastOp.id = 1
  /\ Keys(issues) = {2}
  /\ Len(issuesSubject) = 1

\* The record of the end-to-end example: the body "desc" with the hidden
\* entry of session abc, the labels severity.High and type.FunctionalityBug.
C14_Example ==
  /\ remoteIssue.body = embedDataIntoString(<<"desc">>, <<"<!--session: abc-->">>)
  /\ remoteIssue.labels = <<createLabel("severity", "High"),
                            createLabel("type", "FunctionalityBug")>>

\* C14 as stated: the Issue built from the example in the phase issuesViewer
\* has the description "desc", the severity High, the type FunctionalityBug
\* and duplicated false.
C14_DescriptionIsDesc ==
  (lastOp.op = "createIssueModel" /\ currentPhase = "issuesViewer" /\ C14_Example)
    => (/\ localIssue.description = <<"desc">>
        /\ localIssue.severity = "High"
        /\ localIssue.type = "FunctionalityBug"
        /\ localIssue.duplicated = False)

\* C14, amended: the Issue built from the example in the phase issuesViewer
\* has the description "desc" followed by two line breaks, the severity High,
\* the type FunctionalityBug and duplicated false.
C14_DescriptionIsFormatted ==
  (lastOp.op = "createIssueModel" /\ currentPhase = "issuesViewer" /\ C14_Example)
    => (/\ localIssue.description = <<"desc", "\n", "\n">>
        /\ localIssue.severity = "High"
        /\ localIssue.type = "FunctionalityBug"
        /\ localIssue.duplicated = False)

\* The Issue of the example has been built.
C14_Witness ==
  /\ lastOp.op = "createIssueModel"
  /\ currentPhase = "issuesViewer"
  /\ C14_Example
  /\ localIssue.kind = "Issue"
  /\ localIssue.hiddenDataInDescription = <<"<!--session: abc-->">>

\* The attributes of an Issue that createLabelsForIssue has a label for, but
\* unsure, are the same in the Issues a and b.
SameEmittedAttributes(a, b) ==
  /\ (Truthy(a.severity) => b.severity = a.severity)
  /\ (Truthy(a.type) => b.type = a.type)
  /\ (Truthy(a.responseTag) => b.responseTag = a.responseTag)
  /\ (Truthy(a.duplicated) => b.duplicated = a.duplicated)
  /\ (Truthy(a.status) => b.status = a.status)
  /\ ((Truthy(a.pending) /\ ToNumber(a.pending) > 0) => b.pending = a.pending)

\* C15: the Issue built from the labels that createLabelsForIssue emitted for
\* an Issue has every emitted attribute with the value it had: severity, type,
\* response tag, duplicate flag, status, a positive pending count, and unsure.
C15_LabelRoundTrip ==
  (lastOp.op = "updateIssueResponse" /\ returned.kind = "Issue")
    => (/\ SameEmittedAttributes(localIssue, returned)
        /\ (Truthy(localIssue.unsure) => returned.unsure = localIssue.unsure))

\* C15 without the unsure flag.
C15_RoundTripButUnsure ==
  (lastOp.op = "updateIssueResponse" /\ returned.kind = "Issue")
    => SameEmittedAttributes(localIssue, returned)

\* The record the remote is asked for has a label of the namespace.
AsksLabel(name) == LabelsOf(remoteIssue.labels, name) # <<>>

\* C16: createLabelsForIssue emits the labels tutorial.<a>-<b> and team.<c> of
\* the Issue's team in the phase issuesViewer, in which createIssueModel builds
\* bug-report Issues, and neither of them in any other phase.
C16_TeamLabelsInBugReportPhase ==
  (lastOp.op = "updateIssue")
    => (/\ ((currentPhase = "issuesViewer" /\ localIssue.teamAssigned # NoTeam)
              => (/\ ~lastOp.raised
                  /\ AsksLabel("tutorial")
                  /\ AsksLabel("team")))
        /\ ((currentPhase # "issuesViewer" /\ ~lastOp.raised)
              => (~AsksLabel("tutorial") /\ ~AsksLabel("team"))))

\* C17: createIssueModel in a phase that matches no case yields an Issue that
\* carries the base fields of the record (its number as id, its description),
\* not an absent value.
C17_NoMatchYieldsDegradedIssue ==
  (lastOp.op = "createIssueModel" /\ currentPhase # "issuesViewer")
    => (/\ localIssue # Undefined
        /\ localIssue.kind = "Issue"
        /\ localIssue.id = remoteIssue.number)

\* C18: clone(phase) of an Issue returns an Issue built from the record the
\* original was built from, with its id, its description and the attributes
\* its labels gave.
C18_CloneRebuildsFromRecord ==
  (lastOp.op = "clone")
    => (/\ ~lastOp.raised
        /\ returned = NewIssue(BaseRecord))

\* The two operations that check the assignees of the issue first.
CheckedFlows == {"updateIssueWithAssigneeCheck", "createTeamResponse"}

\* C19: in updateIssueWithAssigneeCheck and createTeamResponse a call of
\* createIssueComment or updateIssue is made only by the step in which the
\* assignability check succeeded (or, for the update of createTeamResponse, by
\* the answer to the comment that followed it); the step in which the check
\* fails makes no call, leaves the remote record alone and delivers the
\* failure to the caller.
C19_UpdateOnlyAfterCheck ==
  [][/\ (flow' \in CheckedFlows /\ pendingCall' # pendingCall
           /\ pendingCall' = "createIssueComment")
        => (pendingCall = "areUsersAssignable"
              /\ lastOp'.op = "areUsersAssignableOk")
     /\ (flow' = "updateIssueWithAssigneeCheck" /\ pendingCall' # pendingCall
           /\ pendingCall' = "updateIssue")
        => (pendingCall = "areUsersAssignable"
              /\ lastOp'.op = "areUsersAssignableOk")
     /\ (flow' = "createTeamResponse" /\ pendingCall' # pendingCall
           /\ pendingCall' = "updateIssue")
        => (pendingCall = "createIssueComment"
              /\ lastOp'.op = "createIssueCommentResponse")
     /\ (flow \in CheckedFlows /\ pendingCall = "areUsersAssignable"
           /\ lastOp'.op # "areUsersAssignableOk")
        => (/\ pendingCall' = "none"
            /\ flow' = "none"
            /\ returned' = Raised
            /\ remoteIssue' = remoteIssue
            /\ localIssue' = localIssue)]_vars

\* The check failed in createTeamResponse: nothing was asked of the remote and
\* the caller got the failure.
C19_Witness ==
  /\ lastOp.op = "areUsersAssignableError"
  /\ returned = Raised
  /\ pendingCall = "none"
  /\ remoteIssue = Undefined

\* C20: constructing an Issue of the moderation phase from a body with no
\* recognizable section, and applying updateDispute or updateTesterResponse
\* with a comment with no recognizable section, complete without raising.
C20_ParseErrorsNeverRaise ==
  (\/ (lastOp.op \in {"updateDispute", "updateTesterResponse"}
         /\ lastOp.input.sections = {})
   \/ (lastOp.op = "createPhaseModerationIssue" /\ lastOp.input.sections = {}))
    => ~lastOp.raised

\* updateTesterResponse alone completes on every comment, leaving the sections
\* it did not find unset.
C20_TesterResponseCompletes ==
  (lastOp.op = "updateTesterResponse")
    => (/\ ~lastOp.raised
        /\ (lastOp.input.sections \cap {"teamResponse", "testerResponse"} = {})
             => (/\ localIssue.issueComment = Undefined
                 /\ localIssue.teamResponse = NoText
                 /\ localIssue.testerResponses = Undefined))

\* The entries of the dispute list of the held Issue that are not done.
UnresolvedEntries ==
  IF localIssue.issueDisputes = Undefined THEN {}
  ELSE {i \in DOMAIN localIssue.issueDisputes.items :
          ~localIssue.issueDisputes.items[i].done}

\* C21: numOfUnresolvedDisputes() is the number of entries of the dispute list
\* that are not done, and 0 for an Issue without a dispute list.
C21_CountsUnresolvedDisputes ==
  (lastOp.op = "numOfUnresolvedDisputes")
    => (/\ returned.kind = "number"
        /\ returned.value = Cardinality(UnresolvedEntries))

\* A list of two disputes, one of them done, was counted as one.
C21_Witness ==
  /\ lastOp.op = "numOfUnresolvedDisputes"
  /\ localIssue.issueDisputes # Undefined
  /\ Len(localIssue.issueDisputes.items) = 2
  /\ returned.value = 1

\* The last operation spliced the resolutions of a tutor comment that parsed:
\* updateDispute with it, or the construction from a record that carries it
\* and whose body holds the description and dispute sections.
SplicedResolutions ==
  IF lastOp.op = "updateDispute" /\ "moderation" \in lastOp.input.sections
    THEN lastOp.input.resolutions
  ELSE IF /\ lastOp.op = "createPhaseModerationIssue"
          /\ {"description", "dispute"} \subseteq lastOp.input.sections
          /\ lastOp.input.comments # <<>>
          /\ "moderation" \in lastOp.input.comments[1].sections
    THEN lastOp.input.comments[1].resolutions
  ELSE <<>>

\* C22: splicing the resolutions of a tutor comment, in the construction and
\* in updateDispute, does not raise whatever the length of the resolution
\* list, and leaves a dispute list of that length whose entry i carries
\* resolution i and the description of the dispute at index i.
C22_PositionalSplice ==
  (SplicedResolutions # <<>>)
    => (/\ ~lastOp.raised
        /\ localIssue.issueDisputes # Undefined
        /\ localIssue.issueDisputes.items =
             [i \in DOMAIN SplicedResolutions |->
                Dispute(DisputeText(i), SplicedResolutions[i])])

\* With no more resolutions than the Issue has disputes, updateDispute splices
\* by position and does not raise.
C22_SpliceWithinDescriptions ==
  [][(/\ lastOp'.op = "updateDispute"
      /\ "moderation" \in lastOp'.input.sections
      /\ localIssue.issueDisputes # Undefined
      /\ Len(lastOp'.input.resolutions) <= Len(localIssue.issueDisputes.items))
       => (/\ ~lastOp'.raised
           /\ localIssue'.issueDisputes.items =
                [i \in DOMAIN lastOp'.input.resolutions |->
                   Dispute(localIssue.issueDisputes.items[i].description,
                           lastOp'.input.resolutions[i])])]_vars

\* C23: a cycle of the poll that fails by raising, in the filter lookup of
\* the tick or in the merge of the batch, leaves the poll subscription active
\* with its timer running and the loading flag false.
C23_PollSurvivesAnyFailure ==
  (lastOp.op \in {"tickThrew", "merge"} /\ lastOp.raised)
    => (/\ issuesPollSubscription = "active"
        /\ nextTick = "later"
        /\ ~isLoading)

\* A merge that raises is survived: catchError swallows it inside the cycle
\* and finalize clears the loading flag.
C23_MergeFailureSurvived ==
  (lastOp.op = "merge" /\ lastOp.raised)
    => (/\ issuesPollSubscription = "active"
        /\ nextTick = "later"
        /\ ~hasSubscription
        /\ ~isLoading)

\* A tick whose filter lookup raises ends the poll: no later tick is due.
C23_ThrowingTickEndsPoll ==
  (lastOp.op = "tickThrew")
    => (/\ issuesPollSubscription = "closed"
        /\ nextTick = "none")

\* A merge has raised in a cycle of the poll.
C23_MergeRaised == lastOp.op = "merge" /\ lastOp.raised

\* C24: whenever no poll subscription exists, the loading flag is false.
C24_StoppedMeansNotLoading ==
  (issuesPollSubscription = "undefined") => ~isLoading

\* Once a cycle of the poll has been subscribed and has ended, or was
\* cancelled by the stop, the stop leaves the loading flag false.
C24_StopAfterCycleNotLoading ==
  (lastOp.op = "stopPollIssues" /\ lastOp.hadCycle) => ~isLoading

\* stopPollIssues before tick 0 of a poll started on an empty snapshot: the
\* loading flag is left true with no subscription.
C24_StoppedWhileLoading ==
  /\ lastOp.op = "stopPollIssues"
  /\ issuesPollSubscription = "undefined"
  /\ isLoading

\* C25: the answer to a single-issue request that was awaited when reset ran
\* (the step after the reset delivers it) writes nothing: the store stays
\* undefined and the snapshot empty.
C25_NoStaleWriteAfterReset ==
  [][(lastOp.op = "reset"
        /\ lastOp'.op \in {"getLatestResponse", "pollIssueResponse"})
       => (/\ ~issues'.defined
           /\ issuesSubject' = <<>>)]_vars

\* reset itself leaves the store undefined and the snapshot empty, and leaves
\* the single-issue requests that are awaited as they are.
C25_ResetKeepsPendingRequests ==
  [][(lastOp'.op = "reset")
       => (/\ ~issues'.defined
           /\ issuesSubject' = <<>>
           /\ pendingGets' = pendingGets
           /\ pendingPolls' = pendingPolls)]_vars

====
